---- MODULE Spec2Model ----
(***************************************************************************)
(* Model of the call validator: the correlation engine                     *)
(* (src/correlation_engine.rs), the WebRTC network monitor                 *)
(* (src/network_monitor.rs) and the monitoring loop of main                *)
(* (src/main.rs).                                                          *)
(*                                                                         *)
(* Strings are TLA+ strings; to_lowercase and contains are computed        *)
(* character by character.  f32 confidences are held as integers in units  *)
(* of 2^-27 and every f32 operation rounds to the 24-bit significand       *)
(* (round to nearest, ties to even).  f32 peak levels are held as their    *)
(* IEEE-754 bit patterns, whose integer order is the order of the          *)
(* non-negative floats.  Durations and clock readings are milliseconds.    *)
(***************************************************************************)
EXTENDS Integers, Sequences, FiniteSets, TLC

(***************************************************************************)
(* Strings                                                                 *)
(***************************************************************************)
UpperChars == "ABCDEFGHIJKLMNOPQRSTUVWXYZ"

LowerChars == "abcdefghijklmnopqrstuvwxyz"

\* char::to_lowercase on one character
LowerChar(c) ==
    IF \E i \in 1..Len(UpperChars) : SubSeq(UpperChars, i, i) = c
    THEN LET i == CHOOSE j \in 1..Len(UpperChars) : SubSeq(UpperChars, j, j) = c
         IN  SubSeq(LowerChars, i, i)
    ELSE c

RECURSIVE LowerFrom(_, _)
LowerFrom(s, i) ==
    IF i > Len(s) THEN "" ELSE LowerChar(SubSeq(s, i, i)) \o LowerFrom(s, i + 1)

\* str::contains(pattern), scanning every start position
Scan(s, pat) ==
    \E i \in 1..(Len(s) - Len(pat) + 1) : SubSeq(s, i, i + Len(pat) - 1) = pat

\* Option<String>: <<>> is None, <<s>> is Some(s)
None == <<>>

Some(s) == <<s>>

(***************************************************************************)
(* Marker lists of the program                                             *)
(***************************************************************************)
media_sites ==
    << "youtube", "netflix", "spotify", "twitch", "soundcloud",
       "apple music", "prime video" >>

call_apps ==
    << "meet", "google meet", "slack", "zoom", "teams", "microsoft teams",
       "whatsapp" >>

meeting_keywords ==
    << "meeting", "call with", "video call", "zoom meeting", "teams meeting",
       " meet ", "conference" >>

\* CALL_APPS of main.rs
CALL_APPS == << "meet.google.com", "meet", "slack", "zoom", "teams", "whatsapp" >>

\* the substrings is_browser_process looks for
browser_markers == << "chrome", "firefox", "edge", "msedge", "brave" >>

(***************************************************************************)
(* Texts the model is run on                                               *)
(***************************************************************************)
\* snapshots handed to the engine on its own
ProcessNames == { "meet-app", "browser", "WhatsApp.exe" }

WindowTitles == { "Team Sync - Meeting", "YouTube - Lo-fi beats", "Team Sync", "" }

DetectedApps == { None, Some("Google Meet"), Some("WhatsApp"), Some("Slack") }

\* audio sessions the audio-output collaborator can report to the loop
MEET == [ name |-> "chrome.exe", process_id |-> 1,
          window_title |-> "Team Sync - Meeting",
          is_playing |-> TRUE, peak_level |-> 1045220557 ]

TUBE == [ name |-> "chrome.exe", process_id |-> 1,
          window_title |-> "YouTube - Lo-fi beats",
          is_playing |-> TRUE, peak_level |-> 1045220557 ]

WAPP == [ name |-> "WhatsApp.exe", process_id |-> 2,
          window_title |-> "WhatsApp",
          is_playing |-> TRUE, peak_level |-> 1045220557 ]

IDLE == [ name |-> "WhatsApp.exe", process_id |-> 2,
          window_title |-> "WhatsApp",
          is_playing |-> FALSE, peak_level |-> 0 ]

AudioApps == { MEET, TUBE, WAPP, IDLE }

\* application names the microphone collaborator can report
MicApps == { "chrome.exe", "WhatsApp.exe" }

(***************************************************************************)
(* to_lowercase and contains, tabulated once over the texts above; any     *)
(* other text is computed directly                                         *)
(***************************************************************************)
AppLabels == { "Google Meet", "Slack", "Zoom", "Microsoft Teams", "WhatsApp" }

KnownNames ==
    ProcessNames \cup { a.name : a \in AudioApps } \cup MicApps \cup AppLabels

KnownTitles ==
    WindowTitles \cup { t \o " - Meeting" : t \in WindowTitles }
        \cup { a.window_title : a \in AudioApps }

KnownTexts == KnownNames \cup KnownTitles

LowerTable == [ s \in KnownTexts |-> LowerFrom(s, 1) ]

\* str::to_lowercase
ToLowercase(s) == IF s \in KnownTexts THEN LowerTable[s] ELSE LowerFrom(s, 1)

KnownPatterns ==
    { media_sites[i] : i \in 1..Len(media_sites) }
        \cup { call_apps[i] : i \in 1..Len(call_apps) }
        \cup { meeting_keywords[i] : i \in 1..Len(meeting_keywords) }
        \cup { CALL_APPS[i] : i \in 1..Len(CALL_APPS) }
        \cup { browser_markers[i] : i \in 1..Len(browser_markers) }

KnownHaystacks ==
    { LowerTable[s] : s \in KnownTexts }
        \cup { LowerTable[n] \o " " \o LowerTable[t] :
                  n \in KnownNames, t \in KnownTitles }
        \cup { LowerTable[n] \o " " \o LowerTable[t] \o " " \o a :
                  n \in KnownNames, t \in KnownTitles,
                  a \in { LowerTable[l] : l \in AppLabels } \cup { "" } }

\* the patterns each text contains
ContainsTable == [ h \in KnownHaystacks |-> { pat \in KnownPatterns : Scan(h, pat) } ]

\* str::contains(pattern)
Contains(s, pat) ==
    IF s \in KnownHaystacks /\ pat \in KnownPatterns
    THEN pat \in ContainsTable[s]
    ELSE Scan(s, pat)

\* Option::unwrap_or_default after map(to_lowercase)
LowerOrDefault(opt) == IF opt = None THEN "" ELSE ToLowercase(opt[1])

(***************************************************************************)
(* f32 arithmetic in units of 2^-27                                        *)
(***************************************************************************)
Pow2(k) == 2 ^ k

RECURSIVE UlpExp(_, _)
\* the exponent k with n in [2^(23+k), 2^(24+k)), 0 when n < 2^24
UlpExp(n, k) == IF n < Pow2(24 + k) THEN k ELSE UlpExp(n, k + 1)

\* round an exact value n * 2^-27 to the nearest f32, ties to even
F32Round(n) ==
    LET k == UlpExp(n, 0)
        u == Pow2(k)
        q == n \div u
        r == n % u
    IN  IF 2 * r > u \/ (2 * r = u /\ q % 2 = 1) THEN (q + 1) * u ELSE q * u

\* f32 + f32
F32Add(a, b) == F32Round(a + b)

\* f32 * f32: the 56-bit exact product is held as H * 2^28 + L
F32Mul(a, b) ==
    LET B14 == Pow2(14)
        B28 == Pow2(28)
        a1  == a \div B14
        a0  == a % B14
        b1  == b \div B14
        b0  == b % B14
        mid == a1 * b0 + a0 * b1
        low == (mid % B14) * B14 + a0 * b0
        L   == low % B28
        H   == a1 * b1 + (mid \div B14) + (low \div B28)
        n0  == 2 * H + (L \div Pow2(27))
        k   == UlpExp(n0, 0)
        u   == Pow2(k)
        q   == n0 \div u
        \* remainder of the exact product below q*u, compared with u/2
        above == IF k = 0 THEN (L % Pow2(27)) > Pow2(26)
                 ELSE IF k = 1 THEN L > Pow2(27)
                 ELSE LET rh == H % Pow2(k - 1)
                      IN  rh > Pow2(k - 2) \/ (rh = Pow2(k - 2) /\ L > 0)
        tie   == IF k = 0 THEN (L % Pow2(27)) = Pow2(26)
                 ELSE IF k = 1 THEN L = Pow2(27)
                 ELSE (H % Pow2(k - 1)) = Pow2(k - 2) /\ L = 0
    IN  IF above \/ (tie /\ q % 2 = 1) THEN (q + 1) * u ELSE q * u

\* f32 literals of detect_call, in units of 2^-27
F32_0_40 == 53687092

F32_0_35 == 46976204

F32_0_15 == 20132660

F32_0_10 == 13421773

F32_0_7 == 93952408

F32_0_45 == 60397976

F32_0_3 == 40265320

\* f32 literals compared with audio_peak_level, as IEEE-754 bit patterns
PEAK_0_001 == 981668463

PEAK_0_1 == 1036831949

(***************************************************************************)
(* CorrelationEngine                                                       *)
(***************************************************************************)
\* is_media_site without the to_lowercase of the title
is_media_site_case_sensitive(window_title) ==
    \E i \in 1..Len(media_sites) : Contains(window_title, media_sites[i])

is_media_site(window_title) ==
    LET lower_title == ToLowercase(window_title)
    IN  \E i \in 1..Len(media_sites) : Contains(lower_title, media_sites[i])

is_call_app(process_name, window_title, detected_app) ==
    LET combined == ToLowercase(process_name) \o " " \o
                    ToLowercase(window_title) \o " " \o
                    LowerOrDefault(detected_app)
    IN  \E i \in 1..Len(call_apps) : Contains(combined, call_apps[i])

\* window_title_confirms_call without the to_lowercase of the title
window_title_confirms_call_case_sensitive(window_title) ==
    \E i \in 1..Len(meeting_keywords) : Contains(window_title, meeting_keywords[i])

window_title_confirms_call(window_title) ==
    LET lower_title == ToLowercase(window_title)
    IN  \E i \in 1..Len(meeting_keywords) :
            Contains(lower_title, meeting_keywords[i])

\* is_voice_note whose second pattern does not look at the WebRTC connection
is_voice_note_any_network(signal) ==
    LET has_outgoing_only == signal.has_mic_active /\ ~signal.has_audio_output
        no_webrtc == ~signal.has_webrtc_connection
        is_short  == signal.duration < 120000
    IN  IF has_outgoing_only /\ no_webrtc THEN TRUE
        ELSE IF is_short /\ signal.has_mic_active
                /\ signal.detected_app # None
                /\ (Contains(ToLowercase(signal.detected_app[1]), "whatsapp")
                    \/ Contains(ToLowercase(signal.detected_app[1]), "slack"))
             THEN TRUE
        ELSE FALSE

\* is_voice_note whose first pattern also asks for a short duration
is_voice_note_short_only(signal) ==
    LET has_outgoing_only == signal.has_mic_active /\ ~signal.has_audio_output
        no_webrtc == ~signal.has_webrtc_connection
        is_short  == signal.duration < 120000
    IN  IF has_outgoing_only /\ no_webrtc /\ is_short THEN TRUE
        ELSE IF is_short /\ signal.has_mic_active /\ ~signal.has_webrtc_connection
                /\ signal.detected_app # None
                /\ (Contains(ToLowercase(signal.detected_app[1]), "whatsapp")
                    \/ Contains(ToLowercase(signal.detected_app[1]), "slack"))
             THEN TRUE
        ELSE FALSE

is_voice_note(signal) ==
    LET has_outgoing_only == signal.has_mic_active /\ ~signal.has_audio_output
        no_webrtc == ~signal.has_webrtc_connection
        is_short  == signal.duration < 120000
    IN  IF has_outgoing_only /\ no_webrtc THEN TRUE
        ELSE IF is_short /\ signal.has_mic_active /\ ~signal.has_webrtc_connection
                /\ signal.detected_app # None
                /\ (Contains(ToLowercase(signal.detected_app[1]), "whatsapp")
                    \/ Contains(ToLowercase(signal.detected_app[1]), "slack"))
             THEN TRUE
        ELSE FALSE

\* the decision of detect_call with a strict comparison
meets_threshold_strict(confidence) == confidence > F32_0_45

\* the decision of detect_call: confidence >= 0.45
meets_threshold(confidence) == confidence >= F32_0_45

\* the scoring with the short-duration penalty applied from exactly 1 s to
\* exactly 5 s
score_signals_penalty_inclusive(signal) ==
    LET audio == signal.has_audio_output /\ signal.audio_peak_level > PEAK_0_001
        c1 == IF audio THEN F32Add(0, F32_0_40) ELSE 0
        r1 == IF audio THEN << "Audio output active" >> ELSE << >>
        c2 == IF signal.has_webrtc_connection THEN F32Add(c1, F32_0_35) ELSE c1
        r2 == IF signal.has_webrtc_connection
              THEN Append(r1, "WebRTC connection detected") ELSE r1
        c3 == IF signal.has_mic_active THEN F32Add(c2, F32_0_15) ELSE c2
        r3 == IF signal.has_mic_active
              THEN Append(r2, "Microphone active")
              ELSE Append(r2, "Microphone muted/off")
        confirms == window_title_confirms_call(signal.window_title)
        c4 == IF confirms THEN F32Add(c3, F32_0_10) ELSE c3
        r4 == IF confirms THEN Append(r3, "Window title confirms meeting") ELSE r3
        short == signal.duration >= 1000 /\ signal.duration <= 5000
        confidence == IF short THEN F32Mul(c4, F32_0_7) ELSE c4
        reasons == IF short
                   THEN Append(r4, "Short duration - reduced confidence") ELSE r4
        is_call == meets_threshold(confidence)
    IN  [is_call |-> is_call, confidence |-> confidence,
         signal_type |-> IF is_call THEN "MeetingCall" ELSE "Unknown",
         reasons |-> reasons]

\* the scoring part of detect_call, reached when no rule returned early
score_signals(signal) ==
    LET audio == signal.has_audio_output /\ signal.audio_peak_level > PEAK_0_001
        c1 == IF audio THEN F32Add(0, F32_0_40) ELSE 0
        r1 == IF audio THEN << "Audio output active" >> ELSE << >>
        c2 == IF signal.has_webrtc_connection THEN F32Add(c1, F32_0_35) ELSE c1
        r2 == IF signal.has_webrtc_connection
              THEN Append(r1, "WebRTC connection detected") ELSE r1
        c3 == IF signal.has_mic_active THEN F32Add(c2, F32_0_15) ELSE c2
        r3 == IF signal.has_mic_active
              THEN Append(r2, "Microphone active")
              ELSE Append(r2, "Microphone muted/off")
        confirms == window_title_confirms_call(signal.window_title)
        c4 == IF confirms THEN F32Add(c3, F32_0_10) ELSE c3
        r4 == IF confirms THEN Append(r3, "Window title confirms meeting") ELSE r3
        short == signal.duration > 1000 /\ signal.duration < 5000
        confidence == IF short THEN F32Mul(c4, F32_0_7) ELSE c4
        reasons == IF short
                   THEN Append(r4, "Short duration - reduced confidence") ELSE r4
        is_call == meets_threshold(confidence)
    IN  [is_call |-> is_call, confidence |-> confidence,
         signal_type |-> IF is_call THEN "MeetingCall" ELSE "Unknown",
         reasons |-> reasons]

\* detect_call with the media-site rule tried before the call-app rule
detect_call_media_first(signal) ==
    IF is_media_site(signal.window_title)
    THEN [is_call |-> FALSE, confidence |-> 0, signal_type |-> "MediaPlayback",
          reasons |-> << "Media playback site detected" >>]
    ELSE IF ~is_call_app(signal.process_name, signal.window_title, signal.detected_app)
    THEN [is_call |-> FALSE, confidence |-> 0, signal_type |-> "Unknown",
          reasons |-> << "Not a known call app" >>]
    ELSE IF is_voice_note(signal)
    THEN [is_call |-> FALSE, confidence |-> F32_0_3, signal_type |-> "VoiceNote",
          reasons |-> << "Voice note pattern detected" >>]
    ELSE score_signals(signal)

detect_call(signal) ==
    IF ~is_call_app(signal.process_name, signal.window_title, signal.detected_app)
    THEN [is_call |-> FALSE, confidence |-> 0, signal_type |-> "Unknown",
          reasons |-> << "Not a known call app" >>]
    ELSE IF is_media_site(signal.window_title)
    THEN [is_call |-> FALSE, confidence |-> 0, signal_type |-> "MediaPlayback",
          reasons |-> << "Media playback site detected" >>]
    ELSE IF is_voice_note(signal)
    THEN [is_call |-> FALSE, confidence |-> F32_0_3, signal_type |-> "VoiceNote",
          reasons |-> << "Voice note pattern detected" >>]
    ELSE score_signals(signal)

\* should_maintain_call that keeps the call on a WebRTC connection alone
should_maintain_call_webrtc_alone(signal, was_previously_call) ==
    IF ~was_previously_call THEN FALSE
    ELSE IF ~is_call_app(signal.process_name, signal.window_title,
                         signal.detected_app) THEN FALSE
    ELSE IF signal.has_webrtc_connection THEN TRUE
    ELSE IF signal.has_audio_output THEN TRUE
    ELSE IF signal.has_mic_active THEN TRUE
    ELSE FALSE

\* should_maintain_call that gives up a call whose title is a media site
should_maintain_call_media_checked(signal, was_previously_call) ==
    IF ~was_previously_call THEN FALSE
    ELSE IF ~is_call_app(signal.process_name, signal.window_title,
                         signal.detected_app) THEN FALSE
    ELSE IF is_media_site(signal.window_title) THEN FALSE
    ELSE IF signal.has_webrtc_connection
            /\ (signal.has_audio_output \/ signal.has_mic_active) THEN TRUE
    ELSE IF signal.has_audio_output THEN TRUE
    ELSE IF signal.has_mic_active THEN TRUE
    ELSE FALSE

should_maintain_call(signal, was_previously_call) ==
    IF ~was_previously_call THEN FALSE
    ELSE IF ~is_call_app(signal.process_name, signal.window_title,
                         signal.detected_app) THEN FALSE
    ELSE IF signal.has_webrtc_connection
            /\ (signal.has_audio_output \/ signal.has_mic_active) THEN TRUE
    ELSE IF signal.has_audio_output THEN TRUE
    ELSE IF signal.has_mic_active THEN TRUE
    ELSE FALSE

(***************************************************************************)
(* State                                                                   *)
(***************************************************************************)
VARIABLES
    \* the engine called on its own: one snapshot, the results of the calls
    snapshot,            \* MultiSignal handed to the engine
    result,              \* Option<DetectionResult> of detect_call(snapshot)
    maintain,            \* Option of [was_previously_call, value]
    baseline,            \* Option of the snapshot and result before a signal was added
    \* the monitoring loop of main and its NetworkMonitor
    now,                 \* SystemTime::now() of the latest iteration, in ms
    ticks,               \* iterations of the loop (polls of the monitor) so far
    previous_state,      \* MonitorState carried to the next iteration
    active_connections,  \* NetworkMonitor.active_connections, keyed by pid
    endpoints,           \* the connection table read by the latest scan
    mic_status_report,   \* MicMonitor's report of the latest iteration
    audio_status_report, \* AudioOutputMonitor's report of the latest iteration
    mic_sources,         \* mic_sources of the latest iteration
    audio_sources,       \* audio_sources of the latest iteration
    signal,              \* Option<MultiSignal> built for the previous call
    should_continue,     \* Option<bool>: should_maintain_call for the previous call
    console              \* the call lines printed on stdout by log_state_changes

engine_vars == << snapshot, result, maintain, baseline >>

monitor_vars == << now, ticks, active_connections, endpoints >>

loop_vars == << previous_state, mic_status_report, audio_status_report,
               mic_sources, audio_sources, signal, should_continue, console >>

vars == << snapshot, result, maintain, baseline, now, ticks, previous_state,
           active_connections, endpoints, mic_status_report,
           audio_status_report, mic_sources, audio_sources, signal,
           should_continue, console >>

(***************************************************************************)
(* NetworkMonitor                                                          *)
(***************************************************************************)
\* a.duration_since(b).unwrap_or(Duration::from_secs(0)), in ms
DurationSince(a, b) == IF a >= b THEN a - b ELSE 0

\* Duration::as_secs
AsSecs(d) == d \div 1000

\* seconds without activity after which a connection is dropped
STALE_SECS == 10

\* the port test with the media range starting above 10000
is_webrtc_port_above_10000(port) ==
    IF port \in 0..65535
    THEN IF port = 3478 \/ port = 19302 \/ port = 5349 THEN TRUE
         ELSE IF port > 10000 /\ port <= 65535 THEN TRUE
         ELSE FALSE
    ELSE FALSE

\* the port of the local address parses as u16 and is a STUN/TURN port or a
\* media port
is_webrtc_port(port) ==
    IF port \in 0..65535
    THEN IF port = 3478 \/ port = 19302 \/ port = 5349 THEN TRUE
         ELSE IF port >= 10000 /\ port <= 65535 THEN TRUE
         ELSE FALSE
    ELSE FALSE

\* an upsert that replaces a known signal by a new one
update_or_create_signal_restart(table, pid, t) ==
    [p \in DOMAIN table \cup {pid} |->
        IF p = pid
        THEN [process_id |-> pid, connection_count |-> 1,
              last_seen |-> t, started_at |-> t]
        ELSE table[p]]

update_or_create_signal(table, pid, t) ==
    IF pid \in DOMAIN table
    THEN [table EXCEPT ![pid].last_seen = t,
                       ![pid].connection_count = @ + 1]
    ELSE [p \in DOMAIN table \cup {pid} |->
            IF p = pid
            THEN [process_id |-> pid, connection_count |-> 1,
                  last_seen |-> t, started_at |-> t]
            ELSE table[p]]

\* parse_netstat_line / parse_ss_line / parse_lsof_line on one line of the
\* connection table: pid 0 is skipped, a WebRTC port updates the pid's signal
parse_line(table, line, t) ==
    IF line.pid = 0 THEN table
    ELSE IF is_webrtc_port(line.port) THEN update_or_create_signal(table, line.pid, t)
    ELSE table

RECURSIVE parse_lines(_, _, _)
parse_lines(table, lines, t) ==
    IF lines = << >> THEN table
    ELSE parse_lines(parse_line(table, Head(lines), t), Tail(lines), t)

\* a scan that marks every known connection as seen when the command
\* cannot be run
scan_network_connections_touch_on_error(table, output, t) ==
    IF ~output.ok
    THEN [p \in DOMAIN table |->
            [table[p] EXCEPT !.last_seen = t, !.connection_count = @ + 1]]
    ELSE parse_lines(table, output.lines, t)

\* scan_network_connections: a command that cannot be run leaves the table
\* as it is
scan_network_connections(table, output, t) ==
    IF ~output.ok THEN table ELSE parse_lines(table, output.lines, t)

\* the retain of get_webrtc_signals with the boundary second kept
retain_fresh_inclusive(table, t) ==
    LET kept == { p \in DOMAIN table :
                    AsSecs(DurationSince(t, table[p].last_seen)) <= STALE_SECS }
    IN  [p \in kept |-> table[p]]

\* the retain of get_webrtc_signals
retain_fresh(table, t) ==
    LET kept == { p \in DOMAIN table :
                    AsSecs(DurationSince(t, table[p].last_seen)) < STALE_SECS }
    IN  [p \in kept |-> table[p]]

\* get_webrtc_signals that scans and returns without the clean-up
get_webrtc_signals_no_cleanup(table, output, t) ==
    scan_network_connections(table, output, t)

\* get_webrtc_signals: scan, then drop the stale connections
get_webrtc_signals(table, output, t) ==
    retain_fresh(scan_network_connections(table, output, t), t)

has_webrtc_activity(table, process_id) == process_id \in DOMAIN table

(***************************************************************************)
(* main: helpers                                                           *)
(***************************************************************************)
\* grace period before ending call (seconds)
CALL_END_GRACE_PERIOD == 2

\* the label the match of detect_call_app gives for an entry of CALL_APPS
app_label(app) ==
    CASE app = "meet.google.com" \/ app = "meet" -> "Google Meet"
      [] app = "slack" -> "Slack"
      [] app = "zoom" -> "Zoom"
      [] app = "teams" -> "Microsoft Teams"
      [] app = "whatsapp" -> "WhatsApp"
      [] OTHER -> app

detect_call_app(process_name, window_title) ==
    LET combined == ToLowercase(process_name) \o " " \o ToLowercase(window_title)
        hits == { i \in 1..Len(CALL_APPS) : Contains(combined, CALL_APPS[i]) }
    IN  IF hits = {} THEN None
        ELSE Some(app_label(CALL_APPS[CHOOSE i \in hits : \A j \in hits : i <= j]))

is_browser_process(process_name) ==
    LET lower == ToLowercase(process_name)
    IN  \/ Contains(lower, "chrome")
        \/ Contains(lower, "firefox")
        \/ Contains(lower, "edge")
        \/ Contains(lower, "msedge")
        \/ Contains(lower, "brave")

RECURSIVE push_mic_sources(_)
\* the loop over report.conflicts.apps_using_mic that pushes one AudioSource
\* per application
push_mic_sources(apps) ==
    IF apps = << >> THEN << >>
    ELSE << [ name |-> Head(apps),
              process_id |-> 0,
              window_title |-> "",
              detected_app |-> detect_call_app(Head(apps), "") ] >>
         \o push_mic_sources(Tail(apps))

\* mic_sources of one iteration: empty when the collaborator fails
build_mic_sources(report) ==
    IF ~report.ok THEN << >> ELSE push_mic_sources(report.apps_using_mic)

RECURSIVE push_audio_sources(_)
\* the loop over report.active_apps that pushes the sessions playing or
\* above the negligible peak
push_audio_sources(apps) ==
    IF apps = << >> THEN << >>
    ELSE (IF Head(apps).is_playing \/ Head(apps).peak_level > PEAK_0_001
          THEN << [ name |-> Head(apps).name,
                    process_id |-> Head(apps).process_id,
                    window_title |-> Head(apps).window_title,
                    detected_app |-> detect_call_app(Head(apps).name,
                                                     Head(apps).window_title) ] >>
          ELSE << >>)
         \o push_audio_sources(Tail(apps))

\* audio_sources of one iteration: empty when the collaborator fails
build_audio_sources(report) ==
    IF ~report.ok THEN << >> ELSE push_audio_sources(report.active_apps)

(***************************************************************************)
(* main: one iteration of the loop                                         *)
(***************************************************************************)
\* the smallest index of a non-empty set of indices
First(indices) == CHOOSE i \in indices : \A j \in indices : i <= j

\* the CallInfo of a continued call whose start is set to this iteration
refresh_call_restarted(prev_call, sig, confidence, t) ==
    [ app |-> prev_call.app,
      process_id |-> prev_call.process_id,
      window_title |-> sig.window_title,
      has_mic |-> sig.has_mic_active,
      has_audio |-> sig.has_audio_output,
      has_webrtc |-> sig.has_webrtc_connection,
      confidence |-> confidence,
      started_at |-> t \div 1000,
      last_seen |-> t,
      call_started_system_time |-> t ]

\* the CallInfo of a continued call that keeps the last_seen of the
\* previous iteration
refresh_call_stale(prev_call, sig, confidence, t) ==
    [ app |-> prev_call.app,
      process_id |-> prev_call.process_id,
      window_title |-> sig.window_title,
      has_mic |-> sig.has_mic_active,
      has_audio |-> sig.has_audio_output,
      has_webrtc |-> sig.has_webrtc_connection,
      confidence |-> confidence,
      started_at |-> prev_call.started_at,
      last_seen |-> prev_call.last_seen,
      call_started_system_time |-> prev_call.call_started_system_time ]

\* a refresh that keeps the confidence the call already had
refresh_call_confidence_kept(prev_call, sig, confidence, t) ==
    [ app |-> prev_call.app,
      process_id |-> prev_call.process_id,
      window_title |-> sig.window_title,
      has_mic |-> sig.has_mic_active,
      has_audio |-> sig.has_audio_output,
      has_webrtc |-> sig.has_webrtc_connection,
      confidence |-> prev_call.confidence,
      started_at |-> prev_call.started_at,
      last_seen |-> t,
      call_started_system_time |-> prev_call.call_started_system_time ]

\* "Call is still active - update it": the CallInfo of a continued call
refresh_call(prev_call, sig, confidence, t) ==
    [ app |-> prev_call.app,
      process_id |-> prev_call.process_id,
      window_title |-> sig.window_title,
      has_mic |-> sig.has_mic_active,
      has_audio |-> sig.has_audio_output,
      has_webrtc |-> sig.has_webrtc_connection,
      confidence |-> confidence,
      started_at |-> prev_call.started_at,
      last_seen |-> t,
      call_started_system_time |-> prev_call.call_started_system_time ]

\* a grace period that never runs out
within_grace_unbounded(elapsed) == AsSecs(elapsed) >= 0

\* the grace-period test with the boundary second included
within_grace_inclusive(elapsed) == AsSecs(elapsed) <= CALL_END_GRACE_PERIOD

\* elapsed.as_secs() < CALL_END_GRACE_PERIOD
within_grace(elapsed) == AsSecs(elapsed) < CALL_END_GRACE_PERIOD

\* the MultiSignal built for the previous call
previous_call_signal(prev_call, audios, mics, table, t) ==
    LET matching == { i \in 1..Len(audios) :
                        audios[i].process_id = prev_call.process_id }
        audio_src == IF matching = {} THEN None ELSE Some(audios[First(matching)])
        has_mic == \E i \in 1..Len(mics) :
                      /\ mics[i].detected_app # None
                      /\ mics[i].detected_app[1] = prev_call.app
        has_audio == audio_src # None
        has_webrtc == has_webrtc_activity(table, prev_call.process_id)
        audio_peak_level == IF audio_src # None THEN PEAK_0_1 ELSE 0
        window_title == IF audio_src # None THEN audio_src[1].window_title
                        ELSE prev_call.window_title
        call_duration == DurationSince(t, prev_call.call_started_system_time)
    IN  [ process_id |-> prev_call.process_id,
          process_name |-> prev_call.app,
          window_title |-> window_title,
          has_mic_active |-> has_mic,
          has_audio_output |-> has_audio,
          audio_peak_level |-> audio_peak_level,
          has_webrtc_connection |-> has_webrtc,
          detected_app |-> Some(prev_call.app),
          duration |-> call_duration ]

\* "Check if previous call is still active": should_maintain_call on the
\* signal built for the previous call, and the call carried forward
check_previous_call(prev_call, sig, t) ==
    LET continue == should_maintain_call(sig, TRUE)
        elapsed == DurationSince(t, prev_call.last_seen)
    IN  [ should_continue |-> continue,
          active_call |->
            IF continue
            THEN Some(refresh_call(prev_call, sig, detect_call(sig).confidence, t))
            ELSE IF within_grace(elapsed) THEN Some(prev_call)
            ELSE None ]

\* has_mic of a candidate of the new-call loop
candidate_has_mic(audio_src, mics) ==
    IF is_browser_process(audio_src.name)
    THEN \E i \in 1..Len(mics) : is_browser_process(mics[i].name)
    ELSE \E i \in 1..Len(mics) :
            /\ mics[i].detected_app # None
            /\ mics[i].detected_app = audio_src.detected_app

\* the signal built for a candidate of the new-call loop
candidate_signal(audio_src, mics, table) ==
    [ process_id |-> audio_src.process_id,
      process_name |-> audio_src.name,
      window_title |-> audio_src.window_title,
      has_mic_active |-> candidate_has_mic(audio_src, mics),
      has_audio_output |-> TRUE,
      audio_peak_level |-> PEAK_0_1,
      has_webrtc_connection |-> has_webrtc_activity(table, audio_src.process_id),
      detected_app |-> audio_src.detected_app,
      duration |-> 0 ]

RECURSIVE detect_new_call_any_candidate(_, _, _, _)
\* the new-call loop that takes the first source with a detected app,
\* whatever detect_call answers
detect_new_call_any_candidate(audios, mics, table, t) ==
    IF audios = << >> THEN None
    ELSE IF Head(audios).detected_app = None
    THEN detect_new_call_any_candidate(Tail(audios), mics, table, t)
    ELSE LET audio_src == Head(audios)
             sig == candidate_signal(audio_src, mics, table)
             detection == detect_call(sig)
         IN  Some([ app |-> audio_src.detected_app[1],
                    process_id |-> audio_src.process_id,
                    window_title |-> audio_src.window_title,
                    has_mic |-> sig.has_mic_active,
                    has_audio |-> TRUE,
                    has_webrtc |-> sig.has_webrtc_connection,
                    confidence |-> detection.confidence,
                    started_at |-> t \div 1000,
                    last_seen |-> t,
                    call_started_system_time |-> t ])

RECURSIVE detect_new_call_last_wins(_, _, _, _)
\* the new-call loop without its break: a later source that detect_call
\* accepts replaces an earlier one
detect_new_call_last_wins(audios, mics, table, t) ==
    IF audios = << >> THEN None
    ELSE LET later == detect_new_call_last_wins(Tail(audios), mics, table, t)
             audio_src == Head(audios)
             sig == candidate_signal(audio_src, mics, table)
             detection == detect_call(sig)
         IN  IF later # None THEN later
             ELSE IF audio_src.detected_app # None /\ detection.is_call
             THEN Some([ app |-> audio_src.detected_app[1],
                         process_id |-> audio_src.process_id,
                         window_title |-> audio_src.window_title,
                         has_mic |-> sig.has_mic_active,
                         has_audio |-> TRUE,
                         has_webrtc |-> sig.has_webrtc_connection,
                         confidence |-> detection.confidence,
                         started_at |-> t \div 1000,
                         last_seen |-> t,
                         call_started_system_time |-> t ])
             ELSE None

RECURSIVE detect_new_call_voice_notes(_, _, _, _)
\* the new-call loop that also starts a call from a voice note
detect_new_call_voice_notes(audios, mics, table, t) ==
    IF audios = << >> THEN None
    ELSE IF Head(audios).detected_app = None
    THEN detect_new_call_voice_notes(Tail(audios), mics, table, t)
    ELSE LET audio_src == Head(audios)
             sig == candidate_signal(audio_src, mics, table)
             detection == detect_call(sig)
         IN  IF detection.is_call \/ detection.signal_type = "VoiceNote"
             THEN Some([ app |-> audio_src.detected_app[1],
                         process_id |-> audio_src.process_id,
                         window_title |-> audio_src.window_title,
                         has_mic |-> sig.has_mic_active,
                         has_audio |-> TRUE,
                         has_webrtc |-> sig.has_webrtc_connection,
                         confidence |-> detection.confidence,
                         started_at |-> t \div 1000,
                         last_seen |-> t,
                         call_started_system_time |-> t ])
             ELSE detect_new_call_voice_notes(Tail(audios), mics, table, t)

RECURSIVE detect_new_call(_, _, _, _)
\* "No previous call": the loop over audio_sources, which skips the sources
\* without a detected app and breaks at the first source for which
\* detect_call answers is_call
detect_new_call(audios, mics, table, t) ==
    IF audios = << >> THEN None
    ELSE IF Head(audios).detected_app = None
    THEN detect_new_call(Tail(audios), mics, table, t)
    ELSE LET audio_src == Head(audios)
             sig == candidate_signal(audio_src, mics, table)
             detection == detect_call(sig)
         IN  IF detection.is_call
             THEN Some([ app |-> audio_src.detected_app[1],
                         process_id |-> audio_src.process_id,
                         window_title |-> audio_src.window_title,
                         has_mic |-> sig.has_mic_active,
                         has_audio |-> TRUE,
                         has_webrtc |-> sig.has_webrtc_connection,
                         confidence |-> detection.confidence,
                         started_at |-> t \div 1000,
                         last_seen |-> t,
                         call_started_system_time |-> t ])
             ELSE detect_new_call(Tail(audios), mics, table, t)

\* the collection that keeps the source of the active call as well
collect_other_audio_sources_unfiltered(audios, active_call) == audios

\* "Collect other audio sources (not the active call)"
collect_other_audio_sources(audios, active_call) ==
    SelectSeq(audios,
              LAMBDA src : ~(active_call # None
                             /\ src.process_id = active_call[1].process_id))

\* log_state_changes printing a start line on every iteration that ends
\* with a call
log_state_changes_every_tick(previous, current) ==
    IF current.active_call # None
    THEN << [ event |-> "CALL STARTED", app |-> current.active_call[1].app ] >>
    ELSE IF previous.active_call # None /\ current.active_call = None
    THEN << [ event |-> "CALL ENDED", app |-> previous.active_call[1].app ] >>
    ELSE << >>

\* log_state_changes: the lines it prints, without their timestamp and
\* duration text
log_state_changes(previous, current) ==
    IF previous.active_call = None /\ current.active_call # None
    THEN << [ event |-> "CALL STARTED", app |-> current.active_call[1].app ] >>
    ELSE IF previous.active_call # None /\ current.active_call = None
    THEN << [ event |-> "CALL ENDED", app |-> previous.active_call[1].app ] >>
    ELSE << >>

(***************************************************************************)
(* Inputs of one iteration                                                 *)
(***************************************************************************)
\* iterations explored
MaxTicks == 3

\* time from one iteration to the next: the 500 ms sleep, and longer gaps
TickGaps == { 500, 1000, 1999, 2001, 10000 }

\* MicMonitor: failure, or the applications using the microphone
MicFails == [ok |-> FALSE, apps_using_mic |-> << >>]

MicReport(apps) == [ok |-> TRUE, apps_using_mic |-> apps]

\* AudioOutputMonitor: failure, or the audio sessions
AudioFails == [ok |-> FALSE, active_apps |-> << >>]

AudioReport(apps) == [ok |-> TRUE, active_apps |-> apps]

\* the connection table: unreadable, or its lines (local port, owning pid)
ScanFails == [ok |-> FALSE, lines |-> << >>]

ScanOutput(lines) == [ok |-> TRUE, lines |-> lines]

Line(port, pid) == [port |-> port, pid |-> pid]

\* what the three collaborators report in one iteration
Observations ==
    { \* every collaborator fails
      [ mic |-> MicFails, audio |-> AudioFails, scan |-> ScanFails ],
      \* a meeting in the browser, heard only; the microphone monitor fails
      [ mic |-> MicFails, audio |-> AudioReport(<< MEET >>),
        scan |-> ScanOutput(<< >>) ],
      \* a meeting in the browser with microphone and media traffic
      [ mic |-> MicReport(<< "chrome.exe" >>), audio |-> AudioReport(<< MEET >>),
        scan |-> ScanOutput(<< Line(10000, 1) >>) ],
      \* two applications with media traffic for the second, in both orders
      [ mic |-> MicReport(<< >>), audio |-> AudioReport(<< MEET, WAPP >>),
        scan |-> ScanOutput(<< Line(3478, 2) >>) ],
      [ mic |-> MicReport(<< >>), audio |-> AudioReport(<< WAPP, MEET >>),
        scan |-> ScanOutput(<< Line(3478, 2) >>) ],
      \* the browser tab now shows a media site
      [ mic |-> MicReport(<< >>), audio |-> AudioReport(<< TUBE >>),
        scan |-> ScanOutput(<< >>) ],
      \* the messaging application plays and records, no media traffic
      [ mic |-> MicReport(<< "WhatsApp.exe" >>), audio |-> AudioReport(<< WAPP >>),
        scan |-> ScanOutput(<< >>) ],
      \* only a microphone in use; the connection table cannot be read, or
      \* the audio monitor fails
      [ mic |-> MicReport(<< "chrome.exe" >>), audio |-> AudioReport(<< >>),
        scan |-> ScanFails ],
      [ mic |-> MicReport(<< "WhatsApp.exe" >>), audio |-> AudioFails,
        scan |-> ScanOutput(<< >>) ],
      \* a silent session and endpoints that do not qualify
      [ mic |-> MicReport(<< >>), audio |-> AudioReport(<< IDLE, MEET >>),
        scan |-> ScanOutput(<< Line(9999, 1), Line(19302, 0) >>) ] }

InitLoop ==
    /\ now = 0
    /\ ticks = 0
    /\ previous_state = [ active_call |-> None, other_audio_sources |-> << >> ]
    /\ active_connections = << >>
    /\ endpoints = ScanOutput(<< >>)
    /\ mic_status_report = MicReport(<< >>)
    /\ audio_status_report = AudioReport(<< >>)
    /\ mic_sources = << >>
    /\ audio_sources = << >>
    /\ signal = None
    /\ should_continue = None
    /\ console = << >>

Init ==
    /\ snapshot = [ process_id |-> 1, process_name |-> "", window_title |-> "",
                    has_mic_active |-> FALSE, has_audio_output |-> FALSE,
                    audio_peak_level |-> 0, has_webrtc_connection |-> FALSE,
                    detected_app |-> None, duration |-> 0 ]
    /\ result = None
    /\ maintain = None
    /\ baseline = None
    /\ InitLoop

\* the second half of an iteration that looks for a new call as soon as the
\* previous one is cleared
Decide_detect_after_clear(t, mics, audios, table) ==
    /\ mic_sources' = mics
    /\ audio_sources' = audios
    /\ active_connections' = table
    /\ IF previous_state.active_call # None
       THEN \E sig \in { previous_call_signal(previous_state.active_call[1],
                                              audios, mics, table, t) } :
            \E checked \in { check_previous_call(previous_state.active_call[1],
                                                 sig, t) } :
                /\ signal' = Some(sig)
                /\ should_continue' = Some(checked.should_continue)
                /\ \E active_call \in
                        { IF checked.active_call # None THEN checked.active_call
                          ELSE detect_new_call(audios, mics, table, t) } :
                      previous_state' =
                         [ active_call |-> active_call,
                           other_audio_sources |->
                               collect_other_audio_sources(audios, active_call) ]
       ELSE \E active_call \in { detect_new_call(audios, mics, table, t) } :
                /\ signal' = None
                /\ should_continue' = None
                /\ previous_state' =
                      [ active_call |-> active_call,
                        other_audio_sources |->
                            collect_other_audio_sources(audios, active_call) ]

\* the second half of an iteration: the previous call is checked, or a new
\* call is looked for, and the state of the iteration is stored
Decide(t, mics, audios, table) ==
    /\ mic_sources' = mics
    /\ audio_sources' = audios
    /\ active_connections' = table
    /\ IF previous_state.active_call # None
       THEN \E sig \in { previous_call_signal(previous_state.active_call[1],
                                              audios, mics, table, t) } :
            \E checked \in { check_previous_call(previous_state.active_call[1],
                                                 sig, t) } :
                /\ signal' = Some(sig)
                /\ should_continue' = Some(checked.should_continue)
                /\ previous_state' =
                      [ active_call |-> checked.active_call,
                        other_audio_sources |->
                            collect_other_audio_sources(audios, checked.active_call) ]
       ELSE \E active_call \in { detect_new_call(audios, mics, table, t) } :
                /\ signal' = None
                /\ should_continue' = None
                /\ previous_state' =
                      [ active_call |-> active_call,
                        other_audio_sources |->
                            collect_other_audio_sources(audios, active_call) ]

\* an iteration that would leave the loop when a collaborator fails
Iteration_abort_on_error(dt, mic_report, audio_report, output) ==
    /\ mic_report.ok /\ audio_report.ok /\ output.ok
    /\ now' = now + dt
    /\ ticks' = ticks + 1
    /\ endpoints' = output
    /\ mic_status_report' = mic_report
    /\ audio_status_report' = audio_report
    /\ \E mics \in { build_mic_sources(mic_report) } :
       \E audios \in { build_audio_sources(audio_report) } :
       \E table \in { get_webrtc_signals(active_connections, output, now + dt) } :
           Decide(now + dt, mics, audios, table)

\* one iteration of the loop of main
Iteration(dt, mic_report, audio_report, output) ==
    /\ now' = now + dt
    /\ ticks' = ticks + 1
    /\ endpoints' = output
    /\ mic_status_report' = mic_report
    /\ audio_status_report' = audio_report
    /\ \E mics \in { build_mic_sources(mic_report) } :
       \E audios \in { build_audio_sources(audio_report) } :
       \E table \in { get_webrtc_signals(active_connections, output, now + dt) } :
           Decide(now + dt, mics, audios, table)

\* an iteration of the loop started with --stream: the state goes to stdout
\* as JSON and log_state_changes is not called
Tick ==
    /\ ticks < MaxTicks
    /\ \E obs \in Observations, dt \in TickGaps :
            Iteration(dt, obs.mic, obs.audio, obs.scan)
    /\ console' = console
    /\ UNCHANGED engine_vars

Next == Tick

Spec == Init /\ [][Next]_vars

(***************************************************************************)
(* The loop iterating without end: every iteration is followed by the     *)
(* next one after the sleep, which weak fairness of the iteration states   *)
(***************************************************************************)
\* iterations explored when the end of a call is followed
MaxLiveTicks == 6

\* the sleep of 500 ms, and an iteration delayed by a second
LiveGaps == { 500, 1500 }

\* a meeting heard in the browser, the browser gone silent, and every
\* collaborator failing
LiveObservations ==
    { [ mic |-> MicReport(<< >>), audio |-> AudioReport(<< MEET >>),
        scan |-> ScanOutput(<< >>) ],
      [ mic |-> MicReport(<< >>), audio |-> AudioReport(<< >>),
        scan |-> ScanOutput(<< >>) ],
      [ mic |-> MicFails, audio |-> AudioFails, scan |-> ScanFails ] }

\* an iteration of the loop started without --stream: log_state_changes
\* prints the start and the end of a call
TickLive ==
    /\ ticks < MaxLiveTicks
    /\ \E obs \in LiveObservations, dt \in LiveGaps :
            Iteration(dt, obs.mic, obs.audio, obs.scan)
    /\ console' = console \o log_state_changes(previous_state, previous_state')
    /\ UNCHANGED engine_vars

NextLive == TickLive

SpecLive == Init /\ [][NextLive]_vars /\ WF_vars(TickLive)

(***************************************************************************)
(* The NetworkMonitor polled on its own                                    *)
(***************************************************************************)
\* polls explored
MaxPolls == 3

\* time from one poll to the next
PollGaps == { 500, 9900, 10000, 10100 }

\* the connection table read by a poll: unreadable, or up to two lines
ScanOutputs ==
    { ScanFails, ScanOutput(<< >>),
      ScanOutput(<< Line(10000, 1) >>), ScanOutput(<< Line(3478, 2) >>),
      ScanOutput(<< Line(9999, 1) >>), ScanOutput(<< Line(19302, 0) >>),
      ScanOutput(<< Line(10000, 1), Line(5349, 2) >>),
      ScanOutput(<< Line(65535, 1), Line(10001, 1) >>),
      \* a port that does not fit in 16 bits, and one next to the STUN port
      ScanOutput(<< Line(65536, 1), Line(3477, 2) >>) }

\* NetworkMonitor::get_webrtc_signals()
Poll ==
    /\ ticks < MaxPolls
    /\ \E dt \in PollGaps, output \in ScanOutputs :
          /\ now' = now + dt
          /\ ticks' = ticks + 1
          /\ endpoints' = output
          /\ active_connections' =
                get_webrtc_signals(active_connections, output, now + dt)
    /\ UNCHANGED << engine_vars, loop_vars >>

NextTracker == Poll

SpecTracker == Init /\ [][NextTracker]_vars

(***************************************************************************)
(* The engine on its own: snapshots drawn from bounded sets                *)
(***************************************************************************)
\* peak levels of the snapshots: 0.0, 0.001 and 0.2
PeakLevels == { 0, PEAK_0_001, 1045220557 }

Durations == { 0, 1000, 3000, 5000, 119999, 120000 }

Snapshots ==
    [ process_id : {1},
      process_name : ProcessNames,
      window_title : WindowTitles,
      has_mic_active : BOOLEAN,
      has_audio_output : BOOLEAN,
      audio_peak_level : PeakLevels,
      has_webrtc_connection : BOOLEAN,
      detected_app : DetectedApps,
      duration : Durations ]

InitEngine ==
    /\ snapshot \in Snapshots
    /\ result = None
    /\ maintain = None
    /\ baseline = None
    /\ InitLoop

\* CorrelationEngine::detect_call(&snapshot)
Detect ==
    /\ result = None
    /\ result' = Some(detect_call(snapshot))
    /\ UNCHANGED << snapshot, maintain, baseline, monitor_vars, loop_vars >>

\* CorrelationEngine::should_maintain_call(&snapshot, was_previously_call)
ShouldMaintain ==
    /\ result # None
    /\ maintain = None
    /\ \E was \in BOOLEAN :
          maintain' = Some([was_previously_call |-> was,
                            value |-> should_maintain_call(snapshot, was)])
    /\ UNCHANGED << snapshot, result, baseline, monitor_vars, loop_vars >>

\* the snapshots that differ from s only in one more true signal: audio
\* output, WebRTC connection, microphone, or a meeting keyword in the title
RaisedFrom(s) ==
    { [s EXCEPT !.has_audio_output = TRUE],
      [s EXCEPT !.has_webrtc_connection = TRUE],
      [s EXCEPT !.has_mic_active = TRUE],
      [s EXCEPT !.window_title =
            IF window_title_confirms_call(@) THEN @ ELSE @ \o " - Meeting"] }
    \ { s }

\* a second snapshot is built from the first with one more true signal
AddSignal ==
    /\ maintain # None
    /\ baseline = None
    /\ \E s \in RaisedFrom(snapshot) : snapshot' = s
    /\ baseline' = Some([snapshot |-> snapshot, result |-> result[1]])
    /\ result' = None
    /\ maintain' = None
    /\ UNCHANGED << monitor_vars, loop_vars >>

NextEngine == Detect \/ ShouldMaintain \/ AddSignal

SpecEngine == InitEngine /\ [][NextEngine]_vars

(***************************************************************************)
(* Claims about the correlation engine (checked under SpecEngine)          *)
(***************************************************************************)
\* the text the app-identity gate searches
CombinedText(s) ==
    ToLowercase(s.process_name) \o " " \o ToLowercase(s.window_title) \o " " \o
    (IF s.detected_app = None THEN "" ELSE ToLowercase(s.detected_app[1]))

CallAppMarkers == { "meet", "google meet", "slack", "zoom", "teams",
                    "microsoft teams", "whatsapp" }

MediaSiteMarkers == { "youtube", "netflix", "spotify", "twitch", "soundcloud",
                      "apple music", "prime video" }

PassesAppGate(s) == \E m \in CallAppMarkers : Contains(CombinedText(s), m)

HasMediaMarker(s) ==
    \E m \in MediaSiteMarkers : Contains(ToLowercase(s.window_title), m)

\* C1: a snapshot whose combined lowercase text holds no call-app marker is
\* answered is_call=false, confidence=0, category=Unknown, whatever its mic,
\* audio-output, network and duration fields are.
C1_AppGateRejects ==
    (result # None /\ ~PassesAppGate(snapshot)) =>
        /\ result[1].is_call = FALSE
        /\ result[1].confidence = 0
        /\ result[1].signal_type = "Unknown"

\* C1 witness: a rejected snapshot that has every signal present and a
\* media title
C1_Witness ==
    /\ result # None
    /\ ~PassesAppGate(snapshot)
    /\ snapshot.has_mic_active /\ snapshot.has_audio_output
    /\ snapshot.has_webrtc_connection
    /\ snapshot.audio_peak_level = 1045220557
    /\ HasMediaMarker(snapshot)

\* C2 as stated: every snapshot whose window title holds a media-site marker
\* is answered MediaPlayback and is_call=false, whatever the other fields.
C2_Original ==
    (result # None /\ HasMediaMarker(snapshot)) =>
        /\ result[1].signal_type = "MediaPlayback"
        /\ result[1].is_call = FALSE

\* C2 amended: a snapshot that passes the app-identity gate and whose window
\* title holds a media-site marker is answered MediaPlayback, is_call=false
\* and confidence 0, whatever the other fields; a snapshot with a media title
\* that fails the app-identity gate (process "browser", title
\* "YouTube - Lo-fi beats", no app label) is answered Unknown, is_call=false.
C2_MediaGate ==
    (result # None /\ HasMediaMarker(snapshot)) =>
        /\ result[1].is_call = FALSE
        /\ result[1].confidence = 0
        /\ result[1].signal_type =
              IF PassesAppGate(snapshot) THEN "MediaPlayback" ELSE "Unknown"

\* C2 witness: a media title on a snapshot that passes the app gate and
\* carries every call signal
C2_Witness ==
    /\ result # None
    /\ snapshot.process_name = "browser"
    /\ snapshot.window_title = "YouTube - Lo-fi beats"
    /\ snapshot.detected_app = Some("Google Meet")
    /\ snapshot.has_audio_output /\ snapshot.has_mic_active
    /\ snapshot.has_webrtc_connection
    /\ result[1].signal_type = "MediaPlayback"

MicOnly(s) ==
    s.has_mic_active /\ ~s.has_audio_output /\ ~s.has_webrtc_connection

\* C3 as stated: every snapshot with mic active, audio-output inactive and
\* network inactive is answered VoiceNote and is_call=false.
C3_Original ==
    (result # None /\ MicOnly(snapshot)) =>
        /\ result[1].signal_type = "VoiceNote"
        /\ result[1].is_call = FALSE

\* C3 amended: a snapshot that passes the app-identity gate, has no media
\* marker in its title, and has mic active, audio-output inactive and network
\* inactive is answered VoiceNote and is_call=false; when one of the two
\* earlier gates fires, that gate's category is returned, still is_call=false.
C3_VoiceNoteGate ==
    (result # None /\ MicOnly(snapshot)) =>
        /\ result[1].is_call = FALSE
        /\ result[1].signal_type =
              IF ~PassesAppGate(snapshot) THEN "Unknown"
              ELSE IF HasMediaMarker(snapshot) THEN "MediaPlayback"
              ELSE "VoiceNote"

\* C3 witness: a mic-only session of two minutes or more in an app other
\* than WhatsApp and Slack
C3_Witness ==
    /\ result # None
    /\ MicOnly(snapshot)
    /\ snapshot.duration >= 120000
    /\ snapshot.detected_app = Some("Google Meet")
    /\ result[1].signal_type = "VoiceNote"
\* the four signals of the scoring: audio output above the negligible level,
\* network signal, microphone, meeting keyword in the title
ScoringSignals(s) ==
    << s.has_audio_output /\ s.audio_peak_level > PEAK_0_001,
       s.has_webrtc_connection,
       s.has_mic_active,
       \E i \in 1..Len(meeting_keywords) :
           Contains(ToLowercase(s.window_title), meeting_keywords[i]) >>

\* t has exactly one scoring signal more than s and none less
OneSignalAdded(s, t) ==
    \E i \in 1..4 :
        /\ ~ScoringSignals(s)[i] /\ ScoringSignals(t)[i]
        /\ \A j \in (1..4) \ {i} : ScoringSignals(s)[j] = ScoringSignals(t)[j]

\* C4: detect's confidence is monotonic in the signals: when a second
\* snapshot differs from a first only in that audio-output, the network
\* signal, the mic or the meeting keyword of the title went from false to
\* true, its confidence is not lower than the first's.
C4_Monotonic ==
    ( /\ baseline # None
      /\ result # None
      /\ OneSignalAdded(baseline[1].snapshot, snapshot) ) =>
        result[1].confidence >= baseline[1].result.confidence

\* C5: in every result of detect, gate results included, is_call is true
\* exactly when confidence >= 0.45 and the category is MeetingCall exactly
\* when is_call is true; so a confidence below 0.45 gives is_call=false.
C5_Threshold ==
    result # None =>
        /\ result[1].is_call <=> (result[1].confidence >= F32_0_45)
        /\ (result[1].signal_type = "MeetingCall") <=> result[1].is_call

\* C5 witness: the network signal and the title keyword alone add up to
\* exactly the f32 0.45, and the result is a call
C5_Witness ==
    /\ result # None
    /\ ~snapshot.has_audio_output /\ ~snapshot.has_mic_active
    /\ snapshot.has_webrtc_connection
    /\ result[1].confidence = F32_0_45
    /\ result[1].is_call
    /\ result[1].signal_type = "MeetingCall"

\* C6: process "meet-app", title "Team Sync - Meeting", mic active,
\* audio-output active at peak 0.2, network signal present, duration 0:
\* detect returns confidence exactly 1.0, is_call=true, MeetingCall.
C6_EndToEnd ==
    ( /\ result # None
      /\ snapshot.process_name = "meet-app"
      /\ snapshot.window_title = "Team Sync - Meeting"
      /\ snapshot.has_mic_active /\ snapshot.has_audio_output
      /\ snapshot.audio_peak_level = 1045220557
      /\ snapshot.has_webrtc_connection
      /\ snapshot.duration = 0 ) =>
        /\ result[1].confidence = Pow2(27)
        /\ result[1].is_call
        /\ result[1].signal_type = "MeetingCall"

\* C6 witness: the scenario's snapshot has been classified
C6_Witness ==
    /\ result # None
    /\ snapshot.process_name = "meet-app"
    /\ snapshot.window_title = "Team Sync - Meeting"
    /\ snapshot.has_mic_active /\ snapshot.has_audio_output
    /\ snapshot.audio_peak_level = 1045220557
    /\ snapshot.has_webrtc_connection
    /\ snapshot.duration = 0
    /\ snapshot.detected_app = None
    /\ Len(result[1].reasons) = 4

SlotBefore == previous_state.active_call

SlotAfter == previous_state'.active_call

\* the step is an iteration that started with a call in the slot
TickWithSlot == ticks' = ticks + 1 /\ SlotBefore # None

\* after the step the call's process is still an audio source, no
\* microphone source carries the call's label and the monitor holds no
\* connection for the call's pid
AudioOnlyLeft ==
    /\ \E i \in 1..Len(audio_sources') :
          audio_sources'[i].process_id = SlotBefore[1].process_id
    /\ ~ \E i \in 1..Len(mic_sources') :
          mic_sources'[i].detected_app = Some(SlotBefore[1].app)
    /\ SlotBefore[1].process_id \notin DOMAIN active_connections'

\* C8: on an iteration that starts with a call in the slot and finds the
\* call's process without microphone and without network connection but
\* still among the audio sources, should_maintain_call answers true and the
\* slot keeps the same call (app, pid, start) with last_seen set to the time
\* of this iteration.
C8_AudioKeepsCall ==
    [][ (TickWithSlot /\ AudioOnlyLeft) =>
            /\ should_continue' = Some(TRUE)
            /\ SlotAfter # None
            /\ SlotAfter[1].app = SlotBefore[1].app
            /\ SlotAfter[1].process_id = SlotBefore[1].process_id
            /\ SlotAfter[1].started_at = SlotBefore[1].started_at
            /\ SlotAfter[1].call_started_system_time =
                  SlotBefore[1].call_started_system_time
            /\ SlotAfter[1].last_seen = now' ]_vars

\* C8 witness: a call created on an earlier iteration has just been continued
\* on audio output alone and carries the time of this iteration
C8_Witness ==
    /\ previous_state.active_call # None
    /\ signal # None
    /\ signal[1].has_audio_output
    /\ ~signal[1].has_mic_active
    /\ ~signal[1].has_webrtc_connection
    /\ should_continue = Some(TRUE)
    /\ previous_state.active_call[1].last_seen = now
    /\ previous_state.active_call[1].call_started_system_time < now

\* C9: on an iteration that starts with a call in the slot and for which
\* should_maintain_call answers false, the slot is carried forward with every
\* field unchanged while now - last_seen is below 2 s, and is empty once
\* now - last_seen exceeds 2 s.
C9_GracePeriod ==
    [][ (TickWithSlot /\ should_continue' = Some(FALSE)) =>
            /\ (now' - SlotBefore[1].last_seen < 2000 => SlotAfter = SlotBefore)
            /\ (now' - SlotBefore[1].last_seen > 2000 => SlotAfter = None) ]_vars

\* C9 witness: should_maintain_call has just answered false 1.999 s after the
\* call was last seen, and the call is still in the slot
C9_Witness ==
    /\ should_continue = Some(FALSE)
    /\ previous_state.active_call # None
    /\ now - previous_state.active_call[1].last_seen = 1999

(***************************************************************************)
(* Claims about the NetworkMonitor (checked under SpecTracker)             *)
(***************************************************************************)
\* the pids for which the scan of this step read a qualifying endpoint
Rescanned ==
    IF ~endpoints'.ok THEN {}
    ELSE { endpoints'.lines[i].pid : i \in
             { j \in 1..Len(endpoints'.lines) :
                 /\ endpoints'.lines[j].pid # 0
                 /\ \/ endpoints'.lines[j].port \in {3478, 19302, 5349}
                    \/ /\ endpoints'.lines[j].port >= 10000
                       /\ endpoints'.lines[j].port <= 65535 } }

\* C10: a poll keeps an entry that is not rescanned exactly when
\* now - last_seen is below 10 s (9.9 s old: present, 10.1 s old: absent);
\* the entries after the poll are the rescanned pids and the entries
\* younger than 10 s.
C10_Eviction ==
    [][ ticks' = ticks + 1 =>
            DOMAIN active_connections' =
                Rescanned \cup
                { p \in DOMAIN active_connections :
                    now' - active_connections[p].last_seen < 10000 } ]_vars

\* C10 witness: after a poll, an entry that was last seen 9.9 s ago is still
\* in the table
C10_Witness ==
    \E p \in DOMAIN active_connections :
        /\ now - active_connections[p].last_seen = 9900
        /\ has_webrtc_activity(active_connections, p)
        /\ ticks >= 2

(***************************************************************************)
(* Invariants of the monitor inside the loop (checked under Spec)          *)
(***************************************************************************)
\* the call in the slot, when it was created or refreshed by the latest
\* iteration
FreshSlot ==
    IF previous_state.active_call # None
       /\ previous_state.active_call[1].last_seen = now
    THEN previous_state.active_call
    ELSE None

\* the entry of pid is in the table and younger than the staleness window
FreshEntry(pid) ==
    /\ pid \in DOMAIN active_connections
    /\ now - active_connections[pid].last_seen < 10000

\* C11: after every poll the table is keyed by process id, one entry per
\* pid, and no entry has now - last_seen >= 10 s; the poll comes before the
\* snapshots of the iteration, so a network flag that is true (in the signal
\* built for the previous call, or in the call created or refreshed by this
\* iteration) rests on an entry younger than 10 s.
C11_NoStaleEntry ==
    /\ \A p \in DOMAIN active_connections :
          /\ active_connections[p].process_id = p
          /\ now - active_connections[p].last_seen < 10000
    /\ (signal # None /\ signal[1].has_webrtc_connection)
          => FreshEntry(signal[1].process_id)
    /\ (FreshSlot # None /\ FreshSlot[1].has_webrtc)
          => FreshEntry(FreshSlot[1].process_id)

\* C11 witness: the signal of a continued call has the network flag from an
\* entry seen on an earlier iteration and still inside the window
C11_Witness ==
    /\ signal # None
    /\ signal[1].has_webrtc_connection
    /\ signal[1].process_id \in DOMAIN active_connections
    /\ now - active_connections[signal[1].process_id].last_seen > 0
    /\ now - active_connections[signal[1].process_id].last_seen < 10000

(***************************************************************************)
(* The call slot (checked under Spec)                                      *)
(***************************************************************************)
\* C12: the slot holds at most one call, and while it stays occupied from
\* one iteration to the next its process_id, app label and start time do
\* not change; another process can only enter a slot that was empty at the
\* end of the iteration before.
C12_SlotIdentity ==
    [][ /\ Len(SlotAfter) <= 1
        /\ (SlotBefore # None /\ SlotAfter # None) =>
              /\ SlotAfter[1].process_id = SlotBefore[1].process_id
              /\ SlotAfter[1].app = SlotBefore[1].app
              /\ SlotAfter[1].started_at = SlotBefore[1].started_at
              /\ SlotAfter[1].call_started_system_time =
                    SlotBefore[1].call_started_system_time ]_vars

\* C12 witness: a call of pid 1 that started on an earlier iteration has
\* been refreshed by this iteration while pid 2 is playing too
C12_Witness ==
    /\ previous_state.active_call # None
    /\ previous_state.active_call[1].call_started_system_time < now
    /\ previous_state.active_call[1].last_seen = now
    /\ previous_state.active_call[1].process_id = 1
    /\ \E i \in 1..Len(audio_sources) : audio_sources[i].process_id = 2

\* the step is an iteration that started with an empty slot
TickWithoutSlot == ticks' = ticks + 1 /\ SlotBefore = None

\* the signal the new-call loop builds for the i-th audio source of the
\* iteration just made
CandidateAfter(i) ==
    candidate_signal(audio_sources'[i], mic_sources', active_connections')

\* C13: the slot becomes occupied only on an iteration that started with an
\* empty slot and on which detect_call answered is_call=true for one of the
\* audio sources of the iteration; the new call has that source's process
\* id and the confidence detect_call returned, and started_at and last_seen
\* are the time of the iteration.
C13_Creation ==
    [][ (ticks' = ticks + 1 /\ SlotBefore = None /\ SlotAfter # None) =>
            \E i \in 1..Len(audio_sources') :
                /\ audio_sources'[i].detected_app # None
                /\ detect_call(CandidateAfter(i)).is_call
                /\ SlotAfter[1].process_id = audio_sources'[i].process_id
                /\ SlotAfter[1].app = audio_sources'[i].detected_app[1]
                /\ SlotAfter[1].confidence =
                      detect_call(CandidateAfter(i)).confidence
                /\ SlotAfter[1].confidence >= F32_0_45
                /\ SlotAfter[1].last_seen = now'
                /\ SlotAfter[1].call_started_system_time = now'
                /\ SlotAfter[1].started_at = now' \div 1000 ]_vars

\* C13 witness: a call has just been created for pid 2 on audio output and a
\* network connection
C13_Witness ==
    /\ previous_state.active_call # None
    /\ signal = None
    /\ previous_state.active_call[1].process_id = 2
    /\ previous_state.active_call[1].has_webrtc
    /\ previous_state.active_call[1].call_started_system_time = now
    /\ previous_state.active_call[1].last_seen = now
    /\ previous_state.active_call[1].confidence >= F32_0_45

\* the i-th audio source of the iteration just made is one the new-call
\* loop would start a call from
AcceptedAfter(i) ==
    /\ audio_sources'[i].detected_app # None
    /\ detect_call(CandidateAfter(i)).is_call

\* C14: on an iteration that started with an empty slot the audio sources
\* are tried in discovery order and the slot is filled from the first one
\* detect_call accepts: the slot is occupied exactly when some source is
\* accepted, and it then holds the accepted source of least index, whatever
\* sources follow it.
C14_FirstCandidate ==
    [][ TickWithoutSlot =>
          /\ SlotAfter # None <=>
                \E i \in 1..Len(audio_sources') : AcceptedAfter(i)
          /\ \A i \in 1..Len(audio_sources') :
                (AcceptedAfter(i) /\ \A j \in 1..(i - 1) : ~AcceptedAfter(j)) =>
                    /\ SlotAfter # None
                    /\ SlotAfter[1].process_id = audio_sources'[i].process_id
                    /\ SlotAfter[1].app = audio_sources'[i].detected_app[1]
                    /\ SlotAfter[1].window_title = audio_sources'[i].window_title
                    /\ SlotAfter[1].confidence =
                          detect_call(CandidateAfter(i)).confidence ]_vars

\* C14 witness: a call has just been created from the first of two audio
\* sources, and detect_call accepts the second one as well
C14_Witness ==
    /\ previous_state.active_call # None
    /\ signal = None
    /\ previous_state.active_call[1].call_started_system_time = now
    /\ Len(audio_sources) = 2
    /\ previous_state.active_call[1].process_id = audio_sources[1].process_id
    /\ audio_sources[2].process_id # audio_sources[1].process_id
    /\ audio_sources[2].detected_app # None
    /\ detect_call(candidate_signal(audio_sources[2], mic_sources,
                                    active_connections)).is_call

\* the indices of the audio sources of the iteration that do not belong to
\* the process of the call in the slot
OtherIndices ==
    { i \in 1..Len(audio_sources) :
         \/ previous_state.active_call = None
         \/ audio_sources[i].process_id #
               previous_state.active_call[1].process_id }

\* C15: after every iteration other_audio_sources is, in discovery order,
\* exactly the audio sources of that iteration whose process differs from
\* the process of the call in the slot (all of them when the slot is empty),
\* so it never contains the process of the active call.
C15_OtherSources ==
    LET others == previous_state.other_audio_sources
    IN  /\ Len(others) = Cardinality(OtherIndices)
        /\ \A i \in OtherIndices :
              others[Cardinality({ j \in OtherIndices : j <= i })] =
                 audio_sources[i]
        /\ \A k \in 1..Len(others) :
              previous_state.active_call # None =>
                 others[k].process_id #
                    previous_state.active_call[1].process_id

\* C15 witness: the call of pid 2 is in the slot, discovered second, and the
\* source of pid 1 discovered before it is the only other audio source
C15_Witness ==
    /\ previous_state.active_call # None
    /\ previous_state.active_call[1].process_id = 2
    /\ Len(audio_sources) = 2
    /\ audio_sources[1].process_id = 1
    /\ audio_sources[2].process_id = 2
    /\ previous_state.other_audio_sources = << audio_sources[1] >>

\* the iteration of the loop on which the collaborators report obs, after
\* the sleep of 500 ms
IterationWith(obs) ==
    /\ Iteration(500, obs.mic, obs.audio, obs.scan)
    /\ console' = console
    /\ UNCHANGED engine_vars

\* the ways the collaborators fail, one at a time and all together, with
\* nothing reported by those that answer
FailureReports ==
    { [ mic |-> MicFails, audio |-> AudioReport(<< >>), scan |-> ScanOutput(<< >>) ],
      [ mic |-> MicReport(<< >>), audio |-> AudioFails, scan |-> ScanOutput(<< >>) ],
      [ mic |-> MicReport(<< >>), audio |-> AudioReport(<< >>), scan |-> ScanFails ],
      [ mic |-> MicFails, audio |-> AudioFails, scan |-> ScanFails ] }

\* the step is an iteration on which some collaborator failed
FailedIteration ==
    /\ ticks' = ticks + 1
    /\ \/ ~mic_status_report'.ok
       \/ ~audio_status_report'.ok
       \/ ~endpoints'.ok

\* C16: no failure of a collaborator stops the loop.  On an iteration where
\* the microphone monitor, the audio output monitor or the scan of the
\* connection table fails, the failing source contributes nothing (an
\* empty list of sources, no connection created or updated), the iteration
\* still makes its whole transition (the previous call is checked, or a
\* new one is looked for, and the state is stored), and in every state of
\* the loop, so after a failure too, an iteration on which collaborators
\* fail is possible.
C16_FailureTolerated ==
    /\ [](\A obs \in FailureReports : ENABLED IterationWith(obs))
    /\ [][ FailedIteration =>
            /\ ~mic_status_report'.ok => mic_sources' = << >>
            /\ ~audio_status_report'.ok =>
                  /\ audio_sources' = << >>
                  /\ previous_state'.other_audio_sources = << >>
            /\ ~endpoints'.ok =>
                  \A p \in DOMAIN active_connections' :
                      /\ p \in DOMAIN active_connections
                      /\ active_connections'[p] = active_connections[p]
            /\ SlotBefore = None =>
                  /\ signal' = None
                  /\ ~audio_status_report'.ok => SlotAfter = None
            /\ SlotBefore # None =>
                  /\ signal' # None /\ should_continue' # None
                  /\ signal'[1].has_mic_active => mic_status_report'.ok
                  /\ signal'[1].has_audio_output => audio_status_report'.ok
                  /\ should_continue'[1] =>
                        SlotAfter # None /\ SlotAfter[1].last_seen = now'
                  /\ ~should_continue'[1] => SlotAfter \in { None, SlotBefore }
         ]_vars

\* C16 witness: every collaborator failed on the latest iteration, and the
\* call of an earlier iteration is kept through the grace period
C16_Witness ==
    /\ ticks >= 2
    /\ ~mic_status_report.ok /\ ~audio_status_report.ok /\ ~endpoints.ok
    /\ mic_sources = << >> /\ audio_sources = << >>
    /\ previous_state.active_call # None
    /\ previous_state.active_call[1].last_seen < now

\* C17: a poll on which the connection table cannot be read returns, creates
\* no entry and changes no entry (last_seen and connection_count as they
\* were); the table loses exactly the entries last seen 10 s ago or more.
C17_UnreadableTable ==
    [][ (ticks' = ticks + 1 /\ ~endpoints'.ok) =>
            /\ DOMAIN active_connections' =
                  { p \in DOMAIN active_connections :
                      now' - active_connections[p].last_seen < 10000 }
            /\ \A p \in DOMAIN active_connections' :
                  active_connections'[p] = active_connections[p] ]_vars

\* C17 witness: after a poll that could not read the table, an entry
\* created a second or more before it is still in the table with a single
\* connection
C17_Witness ==
    /\ ticks >= 2
    /\ ~endpoints.ok
    /\ \E p \in DOMAIN active_connections :
          /\ active_connections[p].connection_count = 1
          /\ now - active_connections[p].last_seen >= 1000

(***************************************************************************)
(* Scoring and voice notes (checked under SpecEngine)                      *)
(***************************************************************************)
\* the snapshot is not stopped by the app-identity rule, the media-site
\* rule or the voice-note rule
Scored(s) == PassesAppGate(s) /\ ~HasMediaMarker(s) /\ ~is_voice_note(s)

\* 1 s < elapsed duration < 5 s
Penalised(s) == s.duration > 1000 /\ s.duration < 5000

\* 0.40, 0.35, 0.15 and 0.10 for the signals present, added in f32 in that
\* order
WeightedSum(s) ==
    LET sg == ScoringSignals(s)
    IN  F32Add(F32Add(F32Add(F32Add(0, IF sg[1] THEN F32_0_40 ELSE 0),
                             IF sg[2] THEN F32_0_35 ELSE 0),
                      IF sg[3] THEN F32_0_15 ELSE 0),
               IF sg[4] THEN F32_0_10 ELSE 0)

\* the same sum in the reals, in thousandths, with the factor 0.7 applied
\* when the duration is penalised
Thousandths(s) ==
    LET sg == ScoringSignals(s)
    IN  ((IF sg[1] THEN 40 ELSE 0) + (IF sg[2] THEN 35 ELSE 0) +
         (IF sg[3] THEN 15 ELSE 0) + (IF sg[4] THEN 10 ELSE 0))
        * (IF Penalised(s) THEN 7 ELSE 10)

\* C18: for a snapshot that passes the three rules the confidence is
\* 0.40 [audio output active and peak > 0.001] + 0.35 [network] +
\* 0.15 [mic] + 0.10 [meeting keyword in the title], multiplied by 0.7
\* exactly when 1 s < duration < 5 s (0, exactly 1 s and exactly 5 s are not
\* penalised): it is the f32 value of that expression, it is within 2^-19
\* of the real value, and it lies in [0, 1].
C18_Confidence ==
    (result # None /\ Scored(snapshot)) =>
        LET confidence == result[1].confidence
            \* a thousand times the difference, in units of 2^-20
            diff == 1000 * (confidence \div Pow2(7)) -
                    Thousandths(snapshot) * Pow2(20)
        IN  /\ confidence = IF Penalised(snapshot)
                            THEN F32Mul(WeightedSum(snapshot), F32_0_7)
                            ELSE WeightedSum(snapshot)
            /\ diff <= 1000 * Pow2(1)
            /\ -diff <= 1000 * Pow2(1)
            /\ confidence >= 0
            /\ confidence <= Pow2(27)

\* C18 witness: all four signals on a call of exactly 1 s give confidence
\* 1.0, not penalised
C18_Witness ==
    /\ result # None
    /\ Scored(snapshot)
    /\ \A i \in 1..4 : ScoringSignals(snapshot)[i]
    /\ snapshot.duration = 1000
    /\ result[1].confidence = Pow2(27)

\* the detected app label names WhatsApp or Slack
MessagingApp(s) ==
    /\ s.detected_app # None
    /\ \/ Contains(ToLowercase(s.detected_app[1]), "whatsapp")
       \/ Contains(ToLowercase(s.detected_app[1]), "slack")

\* a short recording in a messaging app: the snapshot passes the app and
\* media rules, is labelled WhatsApp or Slack, lasted less than 120 s, has
\* the mic active and no audio output
ShortMessagingRecording(s) ==
    /\ PassesAppGate(s) /\ ~HasMediaMarker(s)
    /\ MessagingApp(s)
    /\ s.duration < 120000
    /\ s.has_mic_active /\ ~s.has_audio_output

\* C19 as stated: a short recording in a messaging app is answered
\* VoiceNote and is_call=false whether or not the network signal is present.
C19_Original ==
    (result # None /\ ShortMessagingRecording(snapshot)) =>
        /\ result[1].signal_type = "VoiceNote"
        /\ result[1].is_call = FALSE

\* C19 amended: a short recording in a messaging app is answered VoiceNote,
\* is_call=false, confidence 0.3 when the network signal is absent; when the
\* network signal is present it is not a voice note but scored like any
\* other snapshot, 0.35 + 0.15 (+ 0.10 for a meeting title, times 0.7 between
\* 1 s and 5 s), and is a MeetingCall when the score reaches 0.45.
C19_MessagingVoiceNote ==
    (result # None /\ ShortMessagingRecording(snapshot)) =>
        IF ~snapshot.has_webrtc_connection
        THEN /\ result[1].signal_type = "VoiceNote"
             /\ result[1].is_call = FALSE
             /\ result[1].confidence = F32_0_3
        ELSE /\ result[1].signal_type # "VoiceNote"
             /\ result[1].confidence =
                   IF Penalised(snapshot)
                   THEN F32Mul(WeightedSum(snapshot), F32_0_7)
                   ELSE WeightedSum(snapshot)
             /\ result[1].is_call <=> (result[1].confidence >= F32_0_45)
             /\ (~Penalised(snapshot)) => result[1].signal_type = "MeetingCall"

\* C19 witness: a recording in WhatsApp that has just begun, with a network
\* connection, is answered MeetingCall with confidence 0.50
C19_Witness ==
    /\ result # None
    /\ ShortMessagingRecording(snapshot)
    /\ snapshot.detected_app = Some("WhatsApp")
    /\ snapshot.window_title = ""
    /\ snapshot.duration = 0
    /\ snapshot.has_webrtc_connection
    /\ result[1].signal_type = "MeetingCall"
    /\ result[1].is_call
    /\ result[1].confidence = Pow2(26)

\* C20: detect_call answers VoiceNote only for snapshots with the mic active
\* and no audio output.
C20_VoiceNoteMicOnly ==
    (result # None /\ result[1].signal_type = "VoiceNote") =>
        snapshot.has_mic_active /\ ~snapshot.has_audio_output

\* C21: the scoring with threshold 0.45 agrees with the old boolean rule
\* "mic and audio and known app": a brand-new snapshot (duration 0) of a
\* known call app with the mic active and audio output active above the
\* negligible peak is answered is_call=true.  The snapshots stopped by the
\* media-site rule are left out, so that a violation is one of the scoring
\* path alone.
C21_BooleanRule ==
    ( /\ result # None
      /\ PassesAppGate(snapshot) /\ ~HasMediaMarker(snapshot)
      /\ snapshot.duration = 0
      /\ snapshot.has_mic_active
      /\ snapshot.has_audio_output
      /\ snapshot.audio_peak_level > PEAK_0_001 ) =>
        result[1].is_call

(***************************************************************************)
(* Continuation and end of a call (checked under Spec)                     *)
(***************************************************************************)
\* the indices of the audio sources of the iteration just made that belong
\* to the process of the call the iteration started with
LiveSourcesAfter ==
    { i \in 1..Len(audio_sources') :
         audio_sources'[i].process_id = SlotBefore[1].process_id }

\* C22: on an iteration that starts with a call in the slot and on which
\* should_maintain_call answers true, the slot keeps the app, the process
\* id and the start time of the call, last_seen becomes the time of the
\* iteration, the confidence is the one detect_call returns for the signal
\* of the iteration, the window title is the one of the first audio source
\* of that process when there is one and the title the call already had
\* otherwise, and the duration of the signal is the time of the iteration
\* minus the start of the call.
C22_Refresh ==
    [][ (TickWithSlot /\ should_continue' = Some(TRUE)) =>
            /\ SlotAfter # None
            /\ SlotAfter[1].app = SlotBefore[1].app
            /\ SlotAfter[1].process_id = SlotBefore[1].process_id
            /\ SlotAfter[1].started_at = SlotBefore[1].started_at
            /\ SlotAfter[1].call_started_system_time =
                  SlotBefore[1].call_started_system_time
            /\ SlotAfter[1].last_seen = now'
            /\ SlotAfter[1].confidence = detect_call(signal'[1]).confidence
            /\ SlotAfter[1].window_title = signal'[1].window_title
            /\ SlotAfter[1].window_title =
                  IF LiveSourcesAfter # {}
                  THEN audio_sources'[First(LiveSourcesAfter)].window_title
                  ELSE SlotBefore[1].window_title
            /\ signal'[1].duration =
                  now' - SlotBefore[1].call_started_system_time ]_vars

\* C22 witness: a call of an earlier iteration is continued on the
\* microphone alone and keeps the title it had
C22_Witness ==
    /\ should_continue = Some(TRUE)
    /\ previous_state.active_call # None
    /\ signal # None
    /\ ~signal[1].has_audio_output
    /\ signal[1].has_mic_active
    /\ signal[1].duration > 0
    /\ previous_state.active_call[1].last_seen = now
    /\ previous_state.active_call[1].call_started_system_time < now
    /\ previous_state.active_call[1].window_title = "WhatsApp"

(***************************************************************************)
(* Upsert and port heuristic of the NetworkMonitor (checked under          *)
(* SpecTracker)                                                            *)
(***************************************************************************)
\* the lines of the latest scan that are endpoints of pid p on a STUN/TURN
\* port or a port of the media range
QualifyingAfter(p) ==
    IF ~endpoints'.ok THEN {}
    ELSE { j \in 1..Len(endpoints'.lines) :
             /\ endpoints'.lines[j].pid = p
             /\ p # 0
             /\ \/ endpoints'.lines[j].port \in {3478, 19302, 5349}
                \/ /\ endpoints'.lines[j].port >= 10000
                   /\ endpoints'.lines[j].port <= 65535 }

\* C23: a poll upserts one signal per qualifying endpoint: a pid without an
\* entry gets one with connection_count 1 and started_at = last_seen = the
\* time of the poll; a pid with an entry has connection_count raised by one
\* per endpoint and last_seen set to the time of the poll, started_at as it
\* was; a pid without qualifying endpoint keeps its entry as it was, until
\* it is evicted.  So every entry has connection_count >= 1 and
\* started_at <= last_seen.
C23_Upsert ==
    [][ ticks' = ticks + 1 =>
          /\ \A p \in DOMAIN active_connections \cup Rescanned :
                LET k == Cardinality(QualifyingAfter(p))
                    known == p \in DOMAIN active_connections
                IN  IF k > 0
                    THEN /\ p \in DOMAIN active_connections'
                         /\ active_connections'[p].process_id = p
                         /\ active_connections'[p].last_seen = now'
                         /\ active_connections'[p].connection_count =
                               (IF known
                                THEN active_connections[p].connection_count
                                ELSE 0) + k
                         /\ active_connections'[p].started_at =
                               IF known THEN active_connections[p].started_at
                               ELSE now'
                    ELSE p \in DOMAIN active_connections' =>
                            active_connections'[p] = active_connections[p]
          /\ \A p \in DOMAIN active_connections' :
                /\ active_connections'[p].connection_count >= 1
                /\ active_connections'[p].started_at <=
                      active_connections'[p].last_seen ]_vars

\* C23 witness: the entry of pid 1 was created by an earlier poll and has
\* been found again by the latest one, while the entry of pid 2 was not
C23_Witness ==
    /\ DOMAIN active_connections = {1, 2}
    /\ active_connections[1].connection_count >= 2
    /\ active_connections[1].started_at < active_connections[1].last_seen
    /\ active_connections[1].last_seen = now
    /\ active_connections[2].last_seen < now

\* the ports that indicate real-time media: STUN/TURN, and the media range
MediaPorts == {3478, 19302, 5349} \cup (10000..65535)

\* the pids, other than 0, that own an endpoint on a media port in the
\* latest scan
MediaPidsAfter ==
    IF ~endpoints'.ok THEN {}
    ELSE { endpoints'.lines[j].pid : j \in
             { i \in 1..Len(endpoints'.lines) :
                 /\ endpoints'.lines[i].port \in MediaPorts
                 /\ endpoints'.lines[i].pid # 0 } }

LostTick == TickWithSlot /\ should_continue' = Some(FALSE)

\* C25: a call whose signals stay lost is ended.  From an iteration on which
\* should_maintain_call answers false, either a later iteration continues
\* the call or the slot is eventually empty; on an iteration where the
\* signals are lost the slot is cleared exactly when 2 s or more have
\* passed since last_seen was refreshed, and is otherwise left as it was;
\* once cleared, the slot is filled again only from an audio source of the
\* iteration.
C25_CallEnds ==
    /\ \A k \in 2..(MaxLiveTicks - 3) :
          [](( /\ ticks = k
               /\ previous_state.active_call # None
               /\ should_continue = Some(FALSE) )
             => <>( \/ previous_state.active_call = None
                    \/ ticks > k /\ should_continue = Some(TRUE) ))
    /\ [][ LostTick =>
             /\ SlotAfter = None <=>
                   now' - SlotBefore[1].last_seen >= 2000
             /\ SlotAfter # None => SlotAfter = SlotBefore ]_vars
    /\ [][ (TickWithoutSlot /\ SlotAfter # None) =>
             \E i \in 1..Len(audio_sources') :
                 audio_sources'[i].process_id = SlotAfter[1].process_id ]_vars

\* C25 witness: the signals of a call were lost for four iterations of
\* 500 ms, and the fourth one has cleared the slot
C25_Witness ==
    /\ ticks = 5
    /\ now = 2500
    /\ previous_state.active_call = None
    /\ should_continue = Some(FALSE)
    /\ signal # None
    /\ signal[1].duration = 2000

(***************************************************************************)
(* Between two calls (checked under Spec)                                  *)
(***************************************************************************)
\* an audio source of the latest iteration that the new-call loop would
\* start a call from
AcceptedNow(i) ==
    /\ audio_sources[i].detected_app # None
    /\ detect_call(candidate_signal(audio_sources[i], mic_sources,
                                    active_connections)).is_call

\* C26: a new call is never detected on the iteration that clears the
\* previous one.  A call that starts on an iteration (its start time is the
\* time of the iteration) starts from an empty slot, and the iteration that
\* finds the signals of the call lost with the grace period over leaves
\* the slot empty, whatever audio sources it sees.
C26_NoCallOnClearingTick ==
    [][ ticks' = ticks + 1 =>
          /\ ( /\ SlotAfter # None
               /\ SlotAfter[1].call_started_system_time = now' )
             => SlotBefore = None
          /\ ( /\ SlotBefore # None
               /\ should_continue' = Some(FALSE)
               /\ now' - SlotBefore[1].last_seen >= 2000 )
             => SlotAfter = None ]_vars

\* C26 witness: the latest iteration has cleared the call of pid 2 although
\* it saw an audio source of pid 1 that detect_call accepts
C26_Witness ==
    /\ previous_state.active_call = None
    /\ should_continue = Some(FALSE)
    /\ signal # None
    /\ signal[1].process_id = 2
    /\ \E i \in 1..Len(audio_sources) :
          /\ audio_sources[i].process_id = 1
          /\ AcceptedNow(i)

(***************************************************************************)
(* Console lines (checked under SpecLive, the loop without --stream)       *)
(***************************************************************************)
\* C27: the start and end lines on the console alternate, beginning with a
\* start: an iteration prints CALL STARTED exactly when the slot goes from
\* empty to occupied, CALL ENDED (for the app of the call that ended)
\* exactly when it goes from occupied to empty, and nothing when the call
\* continues, is kept through the grace period, or the slot stays empty.
C27_ConsoleLines ==
    /\ [](/\ \A i \in 1..Len(console) :
                /\ console[i].event =
                      IF i % 2 = 1 THEN "CALL STARTED" ELSE "CALL ENDED"
                /\ i % 2 = 0 => console[i].app = console[i - 1].app
          /\ previous_state.active_call # None <=> Len(console) % 2 = 1
          /\ previous_state.active_call # None =>
                console[Len(console)].app = previous_state.active_call[1].app)
    /\ [][ ticks' = ticks + 1 =>
             Len(console') = Len(console) +
                (IF (SlotBefore = None) # (SlotAfter = None) THEN 1 ELSE 0) ]_vars

\* C27 witness: two calls have started and ended
C27_Witness ==
    /\ Len(console) = 4
    /\ console[3].event = "CALL STARTED"
    /\ console[4].event = "CALL ENDED"
    /\ previous_state.active_call = None

(***************************************************************************)
(* Confidence and microphone flag of the call in the slot (checked under   *)
(* Spec)                                                                   *)
(***************************************************************************)
\* C28 as stated: whenever the slot holds a call its confidence is at least
\* 0.45, at creation and after every refresh.
C28_Original ==
    previous_state.active_call # None =>
        previous_state.active_call[1].confidence >= F32_0_45

\* C28 amended: a call that has not been refreshed since its creation has a
\* confidence of at least 0.45; a refreshed call has the confidence
\* detect_call gave for the signal of the refreshing iteration, which lies
\* in [0, 1] and can be below 0.45, down to 0 for a title that has become a
\* media site.
C28_ConfidenceAtCreation ==
    previous_state.active_call # None =>
        LET call == previous_state.active_call[1]
        IN  /\ call.confidence >= 0
            /\ call.confidence <= Pow2(27)
            /\ call.last_seen = call.call_started_system_time =>
                  call.confidence >= F32_0_45
            /\ (call.last_seen = now /\ signal # None) =>
                  call.confidence = detect_call(signal[1]).confidence

\* C28 witness: the call was continued on its audio output while its window
\* showed a media site, and holds confidence 0
C28_Witness ==
    /\ previous_state.active_call # None
    /\ should_continue = Some(TRUE)
    /\ previous_state.active_call[1].last_seen = now
    /\ previous_state.active_call[1].call_started_system_time < now
    /\ previous_state.active_call[1].window_title = "YouTube - Lo-fi beats"
    /\ previous_state.active_call[1].confidence = 0

\* the call in the slot is played by a browser process in the latest
\* iteration
HostedInBrowser ==
    \E i \in 1..Len(audio_sources) :
        /\ audio_sources[i].process_id = SlotBefore[1].process_id
        /\ is_browser_process(audio_sources[i].name)

\* C29: the microphone flag of a call is computed at continuation as it was
\* at its start.  A call played by a browser process that has just been
\* created with has_mic=true is, on a next iteration where the three
\* collaborators report what they reported before, rebuilt with the
\* microphone active and stored with has_mic=true.
C29_BrowserMic ==
    [][ ( /\ TickWithSlot
          /\ SlotBefore[1].last_seen = SlotBefore[1].call_started_system_time
          /\ SlotBefore[1].last_seen = now
          /\ SlotBefore[1].has_mic
          /\ HostedInBrowser
          /\ mic_status_report' = mic_status_report
          /\ audio_status_report' = audio_status_report
          /\ endpoints' = endpoints ) =>
            /\ signal' # None /\ signal'[1].has_mic_active
            /\ SlotAfter # None /\ SlotAfter[1].has_mic ]_vars

====
